---- MODULE Spec2Model ----
(***************************************************************************)
(* Document delivery engine of the federated-auth-network agent:           *)
(* Storage::fetch_root / Storage::fetch (src/src/storage.rs), the file     *)
(* backed StorageDriver, and the HTTP handlers get_root / get_user         *)
(* (src/src/http.rs).  Results carry a ghost trace `steps` of the          *)
(* operations the call performed, in order.                                *)
(***************************************************************************)
EXTENDS Integers, Sequences, FiniteSets, TLC

\* ------------------------------------------------------------------ bounds
\* Instants are 0..MaxTime ticks; a file modification time is any tick.
MaxTime == 2
\* Number of concurrent request handlers of the server specification.
NumHandlers == 2

\* An If-Modified-Since header has one-second resolution (the format has no
\* sub-second field); SystemTime is finer.  One second is TicksPerSec ticks.
TicksPerSec == 2

Times == 0..MaxTime
Secs  == 0..(MaxTime \div TicksPerSec)

\* Option<T> is <<>> (None) or <<v>> (Some(v)).
None    == <<>>
Some(v) == <<v>>

\* ------------------------------------------------------- MIME negotiation
\* impl FromStr for DIDMIMEType: "Invalid" stands for Err("Invalid MIME type").
DIDMIMEType_from_str(s) ==
    CASE s = "application/json+did"   -> "JSON"
      [] s = "application/jsonld+did" -> "JSON"
      [] s = "application/cbor+did"   -> "CBOR"
      [] OTHER                        -> "Invalid"

\* impl ToString for DIDMIMEType
DIDMIMEType_to_string(t) ==
    IF t = "JSON" THEN "application/json+did" ELSE "application/cbor+did"

\* ------------------------------------------------------ curve / algorithm
Curves == {"P-256", "P-384", "P-521", "secp256k1"}

\* jwk_alg_from_str: "Invalid" stands for Err("Invalid algorithm specified").
jwk_alg_from_str(s) ==
    CASE s = "P-256"     -> "P256"
      [] s = "P-384"     -> "P384"
      [] s = "P-521"     -> "P521"
      [] s = "secp256k1" -> "Secp256k1"
      [] OTHER           -> "Invalid"

jwk_alg_to_signing_alg(alg) ==
    CASE alg = "P256"      -> "ES256"
      [] alg = "P384"      -> "ES384"
      [] alg = "P521"      -> "ES512"
      [] alg = "Secp256k1" -> "ES256K"

\* ----------------------------------------------------------- signing key
\* A Jwk declares a curve (parameter crv) and an algorithm (parameter alg),
\* each optional.  sign_ok: whether the library builds a signer for the key
\* and signs with it (a fixed property of the key material).
KeyCrvs == {Some(c) : c \in Curves} \cup {Some("Ed25519"), None}
KeyAlgs == {Some(c) : c \in Curves} \cup {Some("ES256"), None}
Keys    == [crv : KeyCrvs, alg : KeyAlgs, sign_ok : BOOLEAN]

\* Jwk::generate_ec_key(curve): the key --generate-signing-jwk prints.
generate_ec_key(curve) == [crv |-> Some(curve), alg |-> None, sign_ok |-> TRUE]

\* Jwk::algorithm(): the value of the alg parameter.
Jwk_algorithm(key) == key.alg

\* ------------------------------------------------------------- documents
\* A Document is opaque content (a byte string).
Contents == {<<1>>, <<2, 3>>}
Absent   == [present |-> FALSE, doc |-> <<>>, time |-> 0]
DocStates == {Absent} \cup [present : {TRUE}, doc : Contents, time : Times]
Names    == {"alice", "a/b"}

\* serde_json / ciborium serialization of a Document: two distinct injective
\* byte encodings of the content.
serde_json_ser(doc) == <<123>> \o doc \o <<125>>
ciborium_ser(doc)   == <<161>> \o doc

\* URL_SAFE_NO_PAD.encode(..): base64 over the URL-safe alphabet, no '='
\* padding; the result is the ASCII text.
URL_SAFE_char(i) ==
    IF i < 26 THEN 65 + i
    ELSE IF i < 52 THEN 97 + (i - 26)
    ELSE IF i < 62 THEN 48 + (i - 52)
    ELSE IF i = 62 THEN 45 ELSE 95

RECURSIVE URL_SAFE_NO_PAD_encode(_)
URL_SAFE_NO_PAD_encode(bs) ==
    IF Len(bs) = 0 THEN <<>>
    ELSE IF Len(bs) = 1 THEN
        << URL_SAFE_char(bs[1] \div 4), URL_SAFE_char((bs[1] % 4) * 16) >>
    ELSE IF Len(bs) = 2 THEN
        << URL_SAFE_char(bs[1] \div 4),
           URL_SAFE_char((bs[1] % 4) * 16 + bs[2] \div 16),
           URL_SAFE_char((bs[2] % 16) * 4) >>
    ELSE
        << URL_SAFE_char(bs[1] \div 4),
           URL_SAFE_char((bs[1] % 4) * 16 + bs[2] \div 16),
           URL_SAFE_char((bs[2] % 16) * 4 + bs[3] \div 64),
           URL_SAFE_char(bs[3] % 64) >>
        \o URL_SAFE_NO_PAD_encode(SubSeq(bs, 4, Len(bs)))

\* --------------------------------------------------------------- results
NoEnvelope == [enc |-> "", payload |-> <<>>, content_type |-> ""]
NoBody == [form |-> "none", raw |-> <<>>, alg |-> "", envelope |-> NoEnvelope,
           signed_with |-> None]

\* Ok(ModifiedData::Modified(bytes)), Ok(ModifiedData::NotModified), Err(e)
Modified(body, steps) ==
    [kind |-> "Modified", err |-> "", body |-> body, steps |-> steps]
NotModified(steps) ==
    [kind |-> "NotModified", err |-> "", body |-> NoBody, steps |-> steps]
Err(e, steps) ==
    [kind |-> "Err", err |-> e, body |-> NoBody, steps |-> steps]

VARIABLES docs, signing_key, out, pc, req, resp, lock
vars == <<docs, signing_key, out, pc, req, resp, lock>>

\* --------------------------------------------------------- storage driver
\* name.contains(std::path::MAIN_SEPARATOR)
HasSeparator(name) == name = "a/b"

\* FileSystemStorage::load_doc: open, read and parse the file, with its mtime.
load_doc(d, id) ==
    IF id \in DOMAIN d /\ d[id].present
    THEN [ok |-> TRUE, err |-> "", doc |-> d[id].doc, time |-> d[id].time]
    ELSE [ok |-> FALSE, err |-> "NotFound", doc |-> <<>>, time |-> 0]

\* StorageDriver::load_root
load_root(d) == load_doc(d, "root")

\* StorageDriver::load: the name is rejected before any read.
load(d, name) ==
    IF HasSeparator(name)
    THEN [ok |-> FALSE, err |-> "InvalidName", doc |-> <<>>, time |-> 0]
    ELSE load_doc(d, name)

\* ------------------------------------------------------- delivery engine
\* SystemTime::duration_since(&self, earlier) is Ok iff earlier <= self.
duration_since(self, earlier) == earlier <= self

\* Body of the Ok(_) arm of fetch_root: negotiate, serialize the document.
root_body(doc, mime, steps) ==
    LET m == DIDMIMEType_from_str(mime)
        s == steps \o <<"negotiate">>
    IN  IF m = "Invalid" THEN Err("UnsupportedMediaType", s)
        ELSE Modified([NoBody EXCEPT !.form = "raw",
                          !.raw = IF m = "CBOR" THEN ciborium_ser(doc)
                                  ELSE serde_json_ser(doc)],
                      s \o <<"serialize_doc">>)

\* Storage::fetch_root
fetch_root(d, if_modified_since, mime) ==
    LET l == load_root(d) IN
    IF ~l.ok THEN Err(l.err, <<"load">>)
    ELSE IF duration_since(if_modified_since, l.time)
         THEN root_body(l.doc, mime, <<"load", "duration_since">>)
         ELSE NotModified(<<"load", "duration_since">>)

\* (variant: the CBOR arm wraps the JSON form of the document)
signed_payload_json_inner(doc, m) ==
    IF m = "JSON"
    THEN [enc |-> "JSON",
          payload |-> URL_SAFE_NO_PAD_encode(serde_json_ser(doc)),
          content_type |-> DIDMIMEType_to_string("JSON")]
    ELSE [enc |-> "CBOR",
          payload |-> URL_SAFE_NO_PAD_encode(serde_json_ser(doc)),
          content_type |-> DIDMIMEType_to_string("CBOR")]

\* The SignedPayload record serialized in the negotiated encoding.
signed_payload(doc, m) ==
    IF m = "JSON"
    THEN [enc |-> "JSON",
          payload |-> URL_SAFE_NO_PAD_encode(serde_json_ser(doc)),
          content_type |-> DIDMIMEType_to_string("JSON")]
    ELSE [enc |-> "CBOR",
          payload |-> URL_SAFE_NO_PAD_encode(ciborium_ser(doc)),
          content_type |-> DIDMIMEType_to_string("CBOR")]

\* (variant: the serialized envelope is returned as it is, unsigned)
serialize_compact_unsigned(envelope, alg, key, steps) ==
    Modified([NoBody EXCEPT !.form = "raw", !.envelope = envelope], steps)

\* serialize_compact(payload, header, alg.signer_from_jwk(key)?)?
serialize_compact(envelope, alg, key, steps) ==
    IF ~key.sign_ok THEN Err("SignatureError", steps \o <<"sign">>)
    ELSE Modified([NoBody EXCEPT !.form = "jws", !.alg = alg,
                      !.envelope = envelope, !.signed_with = Some(key)],
                  steps \o <<"sign">>)

\* (variant: the algorithm is selected after the envelope is built)
principal_body_alg_last(key, doc, mime, steps) ==
    LET a  == Jwk_algorithm(key)
        c  == IF a = None THEN "Invalid" ELSE jwk_alg_from_str(a[1])
        m  == DIDMIMEType_from_str(mime)
        s1 == steps \o <<"negotiate">>
        s2 == s1 \o <<"serialize_doc", "base64", "serialize_envelope">>
    IN  IF m = "Invalid" THEN Err("UnsupportedMediaType", s1)
        ELSE IF c = "Invalid"
        THEN Err("UnsupportedAlgorithm", s2 \o <<"select_alg">>)
        ELSE serialize_compact(signed_payload(doc, m),
                 jwk_alg_to_signing_alg(c), key, s2 \o <<"select_alg">>)

\* Body of the Ok(_) arm of fetch: select the algorithm, negotiate, build the
\* envelope, sign.
principal_body(key, doc, mime, steps) ==
    LET a  == Jwk_algorithm(key)
        c  == IF a = None THEN "Invalid" ELSE jwk_alg_from_str(a[1])
        s1 == steps \o <<"select_alg">>
        m  == DIDMIMEType_from_str(mime)
        s2 == s1 \o <<"negotiate">>
    IN  IF c = "Invalid" THEN Err("UnsupportedAlgorithm", s1)
        ELSE IF m = "Invalid" THEN Err("UnsupportedMediaType", s2)
        ELSE serialize_compact(signed_payload(doc, m),
                 jwk_alg_to_signing_alg(c), key,
                 s2 \o <<"serialize_doc", "base64", "serialize_envelope">>)

\* (variant: the body is built before the freshness check)
fetch_eager(d, key, name, if_modified_since, mime) ==
    LET l == load(d, name)
        b == principal_body(key, l.doc, mime, <<"load">>)
    IN  IF ~l.ok THEN Err(l.err, <<"load">>)
        ELSE IF duration_since(if_modified_since, l.time)
             THEN [b EXCEPT !.steps = @ \o <<"duration_since">>]
             ELSE NotModified(b.steps \o <<"duration_since">>)

\* Storage::fetch
fetch(d, key, name, if_modified_since, mime) ==
    LET l == load(d, name) IN
    IF ~l.ok THEN Err(l.err, <<"load">>)
    ELSE IF duration_since(if_modified_since, l.time)
         THEN principal_body(key, l.doc, mime, <<"load", "duration_since">>)
         ELSE NotModified(<<"load", "duration_since">>)

\* (variant: an absent timestamp defaults to the epoch)
fetch_root_opt_epoch(d, if_modified_since, mime) ==
    fetch_root(d, IF if_modified_since = None THEN 0
                  ELSE if_modified_since[1], mime)

\* The entry points the HTTP layer calls take Option<SystemTime>; an absent
\* timestamp is "always stale" and always owes a body.
fetch_root_opt(d, if_modified_since, mime) ==
    IF if_modified_since = None
    THEN LET l == load_root(d) IN
         IF ~l.ok THEN Err(l.err, <<"load">>)
         ELSE root_body(l.doc, mime, <<"load">>)
    ELSE fetch_root(d, if_modified_since[1], mime)

fetch_user(d, key, name, if_modified_since, mime) ==
    IF if_modified_since = None
    THEN LET l == load(d, name) IN
         IF ~l.ok THEN Err(l.err, <<"load">>)
         ELSE principal_body(key, l.doc, mime, <<"load">>)
    ELSE fetch(d, key, name, if_modified_since[1], mime)

\* ------------------------------------------------------------- HTTP layer
\* An If-Modified-Since header value: text that matches the fixed date
\* format and denotes a whole second, or text that does not match it.
HeaderDates == [wellformed : {TRUE}, secs : Secs]
               \cup {[wellformed |-> FALSE, secs |-> 0]}

\* accept(req): the Accept header, or the JSON MIME string when absent.
accept(hdr) == IF hdr = None THEN DIDMIMEType_to_string("JSON") ELSE hdr[1]

\* if_modified_since(req): parse the header; Ok(None) when absent.
if_modified_since(hdr) ==
    IF hdr = None THEN [ok |-> TRUE, value |-> None]
    ELSE IF hdr[1].wellformed
         THEN [ok |-> TRUE, value |-> Some(hdr[1].secs * TicksPerSec)]
         ELSE [ok |-> FALSE, value |-> None]

NoHttp == [kind |-> "none", status |-> 0, content_type |-> "", body |-> NoBody]
HandlerError == [kind |-> "error", status |-> 0, content_type |-> "",
                 body |-> NoBody]

\* modified(md, content_type, req, state)
modified(md, content_type) ==
    IF md.kind = "Modified"
    THEN [kind |-> "response", status |-> 200,
          content_type |-> content_type, body |-> md.body]
    ELSE [kind |-> "response", status |-> 304,
          content_type |-> "", body |-> NoBody]

NoCall == Err("", <<>>)

\* get_root: [fetched, ims, mime, res, http]
get_root(d, accept_hdr, ims_hdr) ==
    LET a == accept(accept_hdr)
        i == if_modified_since(ims_hdr)
        r == fetch_root_opt(d, i.value, a)
    IN  IF ~i.ok
        THEN [fetched |-> FALSE, ims |-> None, mime |-> a, res |-> NoCall,
              http |-> HandlerError]
        ELSE [fetched |-> TRUE, ims |-> i.value, mime |-> a, res |-> r,
              http |-> IF r.kind = "Err" THEN HandlerError
                       ELSE modified(r, a)]

\* get_user
get_user(d, key, name, accept_hdr, ims_hdr) ==
    LET a == accept(accept_hdr)
        i == if_modified_since(ims_hdr)
        r == fetch_user(d, key, name, i.value, a)
    IN  IF ~i.ok
        THEN [fetched |-> FALSE, ims |-> None, mime |-> a, res |-> NoCall,
              http |-> HandlerError]
        ELSE [fetched |-> TRUE, ims |-> i.value, mime |-> a, res |-> r,
              http |-> IF r.kind = "Err" THEN HandlerError
                       ELSE modified(r, "application/jose")]

\* ------------------------------------------------------------ the system
Handlers == 1..NumHandlers
Ids      == {"root", "alice"}
Mimes    == {"application/json+did", "application/jsonld+did",
             "application/cbor+did", "text/html"}
AcceptHeaders == {None} \cup {Some(m) : m \in Mimes}
SinceHeaders  == {None} \cup {Some(h) : h \in HeaderDates}

NoOut == [op |-> "none", name |-> "", fetched |-> FALSE, ims |-> None,
          mime |-> "", res |-> NoCall, http |-> NoHttp]
NoReq == [op |-> "none", name |-> "", accept |-> None, since |-> None]

\* Storage { driver, signing_key } as built by boot_filesystem from the key
\* file and the served directory; no request is in flight.
Init ==
    /\ docs \in [Ids -> DocStates]
    /\ signing_key \in Keys
    /\ out = NoOut
    /\ pc = [h \in Handlers |-> "idle"]
    /\ req = [h \in Handlers |-> NoReq]
    /\ resp = [h \in Handlers |-> NoOut]
    /\ lock = 0

\* A caller invokes Storage::fetch_root.
FetchRoot ==
    \E t \in Times, m \in Mimes :
        /\ out = NoOut
        /\ out' = [op |-> "fetch_root", name |-> "root", fetched |-> TRUE,
                   ims |-> Some(t), mime |-> m,
                   res |-> fetch_root(docs, t, m), http |-> NoHttp]
        /\ UNCHANGED <<docs, signing_key, pc, req, resp, lock>>

\* A caller invokes Storage::fetch.
Fetch ==
    \E n \in Names, t \in Times, m \in Mimes :
        /\ out = NoOut
        /\ out' = [op |-> "fetch", name |-> n, fetched |-> TRUE,
                   ims |-> Some(t), mime |-> m,
                   res |-> fetch(docs, signing_key, n, t, m), http |-> NoHttp]
        /\ UNCHANGED <<docs, signing_key, pc, req, resp, lock>>

\* GET /fan.did handled by get_root.
GetRoot ==
    \E a \in AcceptHeaders, s \in SinceHeaders :
        /\ out = NoOut
        /\ out' = [op |-> "get_root", name |-> "root"] @@ get_root(docs, a, s)
        /\ UNCHANGED <<docs, signing_key, pc, req, resp, lock>>

\* GET /user/:name handled by get_user.
GetUser ==
    \E n \in Names, a \in AcceptHeaders, s \in SinceHeaders :
        /\ out = NoOut
        /\ out' = [op |-> "get_user", name |-> n]
                  @@ get_user(docs, signing_key, n, a, s)
        /\ UNCHANGED <<docs, signing_key, pc, req, resp, lock>>

\* The caller takes the result; the next call can start.
Return ==
    /\ out # NoOut
    /\ out' = NoOut
    /\ UNCHANGED <<docs, signing_key, pc, req, resp, lock>>

Next == FetchRoot \/ Fetch \/ GetRoot \/ GetUser \/ Return

Spec == Init /\ [][Next]_vars

\* ------------------------------------------------------------ the server
\* Requests, documents and keys of the server specification.
ServerRequests ==
    [op : {"get_root"}, name : {"root"},
     accept : {Some("application/cbor+did"), Some("text/html")},
     since : {None, Some([wellformed |-> TRUE, secs |-> 1])}]
    \cup
    [op : {"get_user"}, name : {"alice"},
     accept : {Some("application/cbor+did"), Some("text/html")},
     since : {None, Some([wellformed |-> TRUE, secs |-> 1])}]
ServerDocStates ==
    {Absent} \cup [present : {TRUE}, doc : {<<2, 3>>}, time : Times]
ServerKeys ==
    {generate_ec_key("P-256"),
     [crv |-> Some("P-384"), alg |-> Some("P-384"), sign_ok |-> TRUE],
     [crv |-> Some("P-521"), alg |-> Some("P-521"), sign_ok |-> FALSE]}

InitServer ==
    /\ docs \in [Ids -> ServerDocStates]
    /\ signing_key \in ServerKeys
    /\ out = NoOut
    /\ pc = [h \in Handlers |-> "idle"]
    /\ req = [h \in Handlers |-> NoReq]
    /\ resp = [h \in Handlers |-> NoOut]
    /\ lock = 0

\* The router hands a request to a handler task.
Recv(h) ==
    /\ pc[h] = "idle"
    /\ \E r \in ServerRequests : req' = [req EXCEPT ![h] = r]
    /\ pc' = [pc EXCEPT ![h] = "waiting"]
    /\ UNCHANGED <<docs, signing_key, out, resp, lock>>

\* storage.lock().await: the handler takes the mutex around the storage.
Lock(h) ==
    /\ pc[h] = "waiting"
    /\ lock = 0
    /\ lock' = h
    /\ pc' = [pc EXCEPT ![h] = "locked"]
    /\ UNCHANGED <<docs, signing_key, out, req, resp>>

\* (variant: serving a document touches its modification time)
Serve_touching(h) ==
    /\ pc[h] = "locked"
    /\ lock = h
    /\ resp' = [resp EXCEPT ![h] =
                 IF req[h].op = "get_root"
                 THEN [op |-> "get_root", name |-> "root"]
                      @@ get_root(docs, req[h].accept, req[h].since)
                 ELSE [op |-> "get_user", name |-> req[h].name]
                      @@ get_user(docs, signing_key, req[h].name,
                                  req[h].accept, req[h].since)]
    /\ docs' = [docs EXCEPT ![req[h].name].time = MaxTime]
    /\ lock' = 0
    /\ pc' = [pc EXCEPT ![h] = "done"]
    /\ UNCHANGED <<signing_key, out, req>>

\* The handler fetches under the lock, builds the response and returns,
\* which drops the guard.
Serve(h) ==
    /\ pc[h] = "locked"
    /\ lock = h
    /\ resp' = [resp EXCEPT ![h] =
                 IF req[h].op = "get_root"
                 THEN [op |-> "get_root", name |-> "root"]
                      @@ get_root(docs, req[h].accept, req[h].since)
                 ELSE [op |-> "get_user", name |-> req[h].name]
                      @@ get_user(docs, signing_key, req[h].name,
                                  req[h].accept, req[h].since)]
    /\ lock' = 0
    /\ pc' = [pc EXCEPT ![h] = "done"]
    /\ UNCHANGED <<docs, signing_key, out, req>>

\* The response is written to the client; the task ends.
Reply(h) ==
    /\ pc[h] = "done"
    /\ pc' = [pc EXCEPT ![h] = "idle"]
    /\ req' = [req EXCEPT ![h] = NoReq]
    /\ resp' = [resp EXCEPT ![h] = NoOut]
    /\ UNCHANGED <<docs, signing_key, out, lock>>

NextServer == \E h \in Handlers : Recv(h) \/ Lock(h) \/ Serve(h) \/ Reply(h)

SpecServer == InitServer /\ [][NextServer]_vars

\* ---------------------------------------------------------------- claims
\* The call recorded in `out`, as the claims speak of it.
RootCall      == out.fetched /\ out.op \in {"fetch_root", "get_root"}
PrincipalCall == out.fetched /\ out.op \in {"fetch", "get_user"}
Existing      == out.name \in Ids /\ docs[out.name].present
LastModified  == docs[out.name].time
SupportedMimes == {"application/json+did", "application/jsonld+did",
                   "application/cbor+did"}
Supported     == out.mime \in SupportedMimes
StepSet       == {out.res.steps[i] : i \in 1..Len(out.res.steps)}
EncodingSteps == {"serialize_doc", "base64", "serialize_envelope", "sign"}

\* The encoding and canonical MIME string the three accepted strings stand for.
Negotiated ==
    IF out.mime = "application/cbor+did" THEN "CBOR" ELSE "JSON"
Canonical ==
    IF out.mime = "application/cbor+did" THEN "application/cbor+did"
    ELSE "application/json+did"
InnerBytes ==
    IF Negotiated = "CBOR" THEN ciborium_ser(docs[out.name].doc)
    ELSE serde_json_ser(docs[out.name].doc)

\* C1: on an existing document with a supported MIME string and a present
\* ifModifiedSince, the result is NotModified when ifModifiedSince >=
\* lastModified (equality included) and Modified when it is older.
C1_FreshnessDirection ==
    ((RootCall \/ PrincipalCall) /\ Existing /\ Supported /\ out.ims # None)
    => /\ (out.ims[1] >= LastModified => out.res.kind = "NotModified")
       /\ (out.ims[1] < LastModified => out.res.kind = "Modified")

C3_PrincipalSignedRootUnsigned ==
    out.res.kind = "Modified"
    => /\ PrincipalCall => /\ out.res.body.form = "jws"
                           /\ out.res.body.signed_with = Some(signing_key)
                           /\ "sign" \in StepSet
       /\ RootCall => /\ out.res.body.form = "raw"
                      /\ out.res.body.signed_with = None
                      /\ "sign" \notin StepSet

C3_Witness ==
    PrincipalCall /\ out.res.kind = "Modified" /\ out.res.body.form = "jws"

\* C4: whenever mimeString is not one of the three accepted strings,
\* fetchRoot and fetchPrincipal fail with UnsupportedMediaType, whatever the
\* document source, the freshness comparison and the signing key are.
C4_NegotiationFirst ==
    ((RootCall \/ PrincipalCall) /\ ~Supported)
    => out.res.err = "UnsupportedMediaType"

C6_CurveSelectsAlgorithm ==
    (PrincipalCall /\ "select_alg" \in StepSet
       /\ signing_key.crv \in {Some(c) : c \in Curves})
    => /\ out.res.err # "UnsupportedAlgorithm"
       /\ out.res.kind = "Modified" =>
            out.res.body.alg =
              CASE signing_key.crv = Some("P-256")     -> "ES256"
                [] signing_key.crv = Some("P-384")     -> "ES384"
                [] signing_key.crv = Some("P-521")     -> "ES512"
                [] signing_key.crv = Some("secp256k1") -> "ES256K"

\* C7: a fetch that returns NotModified performed no serialization, envelope
\* construction, algorithm selection or signing: its only steps are among
\* negotiation, the document source load and the timestamp comparison.
C7_NotModifiedIsCheap ==
    (out.fetched /\ out.res.kind = "NotModified")
    => StepSet \subseteq {"negotiate", "load", "duration_since"}

C7_Witness ==
    PrincipalCall /\ out.res.kind = "NotModified" /\ "load" \in StepSet

\* Reading base64url text back: the sextet of a character of the URL-safe
\* alphabet (64 for any other character, '=' included), and the bytes of an
\* unpadded text.
Sextet(ch) ==
    IF ch >= 65 /\ ch <= 90 THEN ch - 65
    ELSE IF ch >= 97 /\ ch <= 122 THEN ch - 97 + 26
    ELSE IF ch >= 48 /\ ch <= 57 THEN ch - 48 + 52
    ELSE IF ch = 45 THEN 62
    ELSE IF ch = 95 THEN 63 ELSE 64

RECURSIVE Base64UrlDecode(_)
Base64UrlDecode(cs) ==
    LET q(i) == Sextet(cs[i]) IN
    IF Len(cs) < 2 THEN <<>>
    ELSE IF Len(cs) = 2 THEN << q(1) * 4 + q(2) \div 16 >>
    ELSE IF Len(cs) = 3 THEN
        << q(1) * 4 + q(2) \div 16, (q(2) % 16) * 16 + q(3) \div 4 >>
    ELSE
        << q(1) * 4 + q(2) \div 16, (q(2) % 16) * 16 + q(3) \div 4,
           (q(3) % 4) * 64 + q(4) >>
        \o Base64UrlDecode(SubSeq(cs, 5, Len(cs)))

\* C8: in a Modified result of fetchPrincipal the inner document and the
\* outer record {payload, content_type} are serialized in the one encoding
\* negotiated (once) from mimeString; content_type is that encoding's
\* canonical MIME string (application/json+did also for the legacy alias);
\* the payload is the unpadded base64url text of the inner serialization.
C8_EnvelopeOneEncoding ==
    (PrincipalCall /\ out.res.kind = "Modified")
    => LET e == out.res.body.envelope IN
       /\ Supported
       /\ Cardinality({i \in 1..Len(out.res.steps) :
                          out.res.steps[i] = "negotiate"}) = 1
       /\ e.enc = Negotiated
       /\ e.content_type = Canonical
       /\ \A i \in 1..Len(e.payload) : Sextet(e.payload[i]) < 64
       /\ Len(e.payload) % 4 # 1
       /\ Base64UrlDecode(e.payload) = InnerBytes

C8_Witness ==
    /\ PrincipalCall /\ out.res.kind = "Modified"
    /\ out.mime = "application/cbor+did"
    /\ out.res.body.envelope.content_type = "application/cbor+did"
    /\ Len(out.res.body.envelope.payload) = 3

\* C9: a Modified result is answered with status 200 and a Content-type that
\* is, for fetch-root, the canonical MIME string of the negotiated encoding
\* (application/json+did also for the legacy alias and for an absent Accept
\* header) and, for fetch-principal, the signed-envelope content type; a
\* NotModified result is answered with status 304 and an empty body.
C9_ResponseMapping ==
    (out.op \in {"get_root", "get_user"} /\ out.fetched)
    => /\ out.res.kind = "Modified" =>
            /\ out.http.status = 200
            /\ out.http.body = out.res.body
            /\ out.http.content_type =
                 IF out.op = "get_root" THEN Canonical ELSE "application/jose"
       /\ out.res.kind = "NotModified" =>
            /\ out.http.status = 304
            /\ out.http.body = NoBody

\* C10: no fetch, successful or failed, changes the document source or the
\* signing key, and whatever fetches came before or in between, two handlers
\* that served the same request hold the same outcome (Modified, NotModified
\* or the same error kind): a later fetch answers as the first one did.
C10_FetchesIndependent ==
    [][ /\ docs' = docs
        /\ signing_key' = signing_key
        /\ \A h1, h2 \in Handlers :
             (pc'[h1] = "done" /\ pc'[h2] = "done" /\ req'[h1] = req'[h2])
             => /\ resp'[h1].res.kind = resp'[h2].res.kind
                /\ resp'[h1].res.err = resp'[h2].res.err ]_vars

C10_Witness ==
    \E h1, h2 \in Handlers :
        /\ h1 # h2
        /\ pc[h1] = "done" /\ pc[h2] = "done" /\ req[h1] = req[h2]
        /\ resp[h1].res.kind = "Modified"

====
